---- MODULE Spec2Model ----
(***************************************************************************)
(* A model of cw-ndfd-xml: the DWML parser (dwml.py) and the forecast      *)
(* assembler (forecast.py).                                                *)
(*                                                                         *)
(* Encoding of Python values.  A raw value (an XML text, or a value stored *)
(* in the forecast) is a pair <<tag, n>>:                                  *)
(*    <<"none", 0>>    None                                                *)
(*    <<"str", -1>>    the empty string ''                                 *)
(*    <<"str", n>>     the decimal text of the number n, n >= 0            *)
(*    <<"int", n>>     the int n                                           *)
(*    <<"float", n>>   the float n                                         *)
(*    <<"wx", els>>    a text holding '|' or ':', by its split: els[k] is  *)
(*                     the k-th '|'-separated field, itself the sequence   *)
(*                     of its ':'-separated parts                          *)
(*    <<"link", ps>>   an icon link, by its split at '/': each piece is    *)
(*                     <<first character, rest>>, or <<>> when empty       *)
(*    <<"name", p>>    the non-empty text of one such piece                *)
(*    <<"phrase", ws>> the words ws joined by single spaces                *)
(* In _cleanup, amounts of rain and snow count hundredths of an inch.      *)
(* A datetime is [date |-> day number, time |-> <<h, m, s>>]; NoEnd stands *)
(* for an end that is None.                                                *)
(***************************************************************************)
EXTENDS Integers, Sequences, FiniteSets, TLC

VARIABLES
    \* DwmlParser.parse
    pPc, children, layoutAttr, rawValues, time_layouts, pvalues,
    \* ForecastParser.parse
    aPc, doc, step, daily, hourly, returned,
    \* ForecastParser._aggregate
    aggPc, aggField, aggValues, aggResult,
    \* ForecastParser._daily_low
    lowPc, dailies, hourlies, lowResult,
    \* ForecastParser._cleanup
    clPc, clInput, clOrder, clData, clPos, tmpPrecip, averageRain, averageSnow,
    \* ForecastParser._most_frequent
    fqPc, fqValues, fqResult,
    \* ForecastParser._format_weather
    wxPc, wxLine, wxResult

parseVars == <<pPc, children, layoutAttr, rawValues, time_layouts, pvalues>>
asmVars == <<aPc, doc, step, daily, hourly, returned>>

aggVars == <<aggPc, aggField, aggValues, aggResult>>

lowVars == <<lowPc, dailies, hourlies, lowResult>>

clVars ==
    <<clPc, clInput, clOrder, clData, clPos, tmpPrecip, averageRain, averageSnow>>

fqVars == <<fqPc, fqValues, fqResult>>
wxVars == <<wxPc, wxLine, wxResult>>

vars == <<parseVars, asmVars, aggVars, lowVars, clVars, fqVars, wxVars>>

----------------------------------------------------------------------------
\* Bounds of the model

MaxChildren == 4
MaxRaw == 3
MaxValues == 3
MaxDailies == 2
MaxHourlies == 2
MaxSlots == 3
MaxFreqLen == 4
MaxFields == 5

\* The calendar dates of the values
Dates == {1, 2}

----------------------------------------------------------------------------
\* Python values

NoneV == <<"none", 0>>
EmptyStr == <<"str", -1>>
Str(n) == <<"str", n>>
IntV(n) == <<"int", n>>
FloatV(n) == <<"float", n>>

\* Python truthiness: None, '', 0 and 0.0 are false
Truthy(v) ==
    CASE v[1] = "none" -> FALSE
      [] v[1] = "str" -> v # EmptyStr
      [] v[1] \in {"int", "float"} -> v[2] # 0
      [] OTHER -> TRUE

NoEnd == [date |-> 0, time |-> <<0, 0, 0>>]

\* Sequences over S of length at most n
SeqsUpTo(S, n) == UNION {[1..k -> S] : k \in 0..n}

Min(a, b) == IF a < b THEN a ELSE b

\* int(x) of the quotient a / b, b > 0: truncation towards zero
TruncDiv(a, b) == IF a >= 0 THEN a \div b ELSE -((-a) \div b)

RECURSIVE SumSeq(_)
SumSeq(s) == IF s = <<>> THEN 0 ELSE s[1] + SumSeq(Tail(s))

RECURSIVE MaxSeq(_)
MaxSeq(s) ==
    IF Len(s) = 1 THEN s[1]
    ELSE LET m == MaxSeq(Tail(s)) IN IF s[1] >= m THEN s[1] ELSE m

RECURSIVE MinSeq(_)
MinSeq(s) ==
    IF Len(s) = 1 THEN s[1]
    ELSE LET m == MinSeq(Tail(s)) IN IF s[1] <= m THEN s[1] ELSE m

----------------------------------------------------------------------------
\* dwml.py: DwmlParser

\* The text of the i-th child of a time-layout element is the timestamp
\* number i; isoparse reads it as a half-day: 07:00 and 19:00 of each date.
IsoParse(text) ==
    [date |-> 1 + (text - 1) \div 2,
     time |-> IF text % 2 = 1 THEN <<7, 0, 0>> ELSE <<19, 0, 0>>]

\* The loop over the children of one time-layout element, from child i on.
\* st = [key, periods, failed]: an end-valid-time with no period open
\* indexes periods[-1] of an empty list and raises IndexError.
RECURSIVE LayoutLoop(_, _, _)
LayoutLoop(ch, i, st) ==
    IF i > Len(ch) \/ st.failed THEN st
    ELSE LET tag == ch[i]
             np == Len(st.periods)
         IN  LayoutLoop(ch, i + 1,
               CASE tag = "layout-key" -> [st EXCEPT !.key = "k1"]
                 [] tag = "start-valid-time" ->
                      [st EXCEPT !.periods = Append(@, <<i, 0>>)]
                 [] tag = "end-valid-time" ->
                      IF np = 0 THEN [st EXCEPT !.failed = TRUE]
                      ELSE [st EXCEPT !.periods[np] = <<@[1], i>>]
                 [] OTHER -> st)

parse_time_layouts(ch) ==
    LayoutLoop(ch, 1, [key |-> "None", periods |-> <<>>, failed |-> FALSE])

\* zip(values, periods): as long as the shorter of the two
ZipValues(values, periods) ==
    [k \in 1..Min(Len(values), Len(periods)) |->
        [value |-> values[k],
         start |-> IsoParse(periods[k][1]),
         end |-> IF periods[k][2] # 0 THEN IsoParse(periods[k][2]) ELSE NoEnd]]

ParseInit ==
    /\ pPc = "start"
    /\ children \in SeqsUpTo({"layout-key", "start-valid-time", "end-valid-time"},
                             MaxChildren)
    /\ layoutAttr \in {"k1", "None"}
    /\ rawValues \in SeqsUpTo({Str(30), EmptyStr}, MaxRaw)
    /\ time_layouts = <<>>
    /\ pvalues = <<>>

\* DwmlParser.parse_time_layouts on a document with one time-layout element
ParseTimeLayouts ==
    /\ pPc = "start"
    /\ LET st == parse_time_layouts(children)
       IN  IF st.failed
           THEN /\ pPc' = "error"
                /\ UNCHANGED time_layouts
           ELSE /\ pPc' = "layouts"
                /\ time_layouts' = [k \in {st.key} |-> st.periods]
    /\ UNCHANGED <<children, layoutAttr, rawValues, pvalues>>
    /\ UNCHANGED <<asmVars, aggVars, lowVars, clVars, fqVars, wxVars>>

\* DwmlParser.parse_parameters on a document with one parameter; a
\* time-layout attribute that names no layout raises KeyError
ParseParameters ==
    /\ pPc = "layouts"
    /\ IF layoutAttr \in DOMAIN time_layouts
       THEN /\ pvalues' = ZipValues(rawValues, time_layouts[layoutAttr])
            /\ pPc' = "done"
       ELSE /\ pPc' = "error"
            /\ UNCHANGED pvalues
    /\ UNCHANGED <<children, layoutAttr, rawValues, time_layouts>>
    /\ UNCHANGED <<asmVars, aggVars, lowVars, clVars, fqVars, wxVars>>

ParseNext == ParseTimeLayouts \/ ParseParameters

ParseIdle ==
    /\ pPc = "idle"
    /\ children = <<>>
    /\ layoutAttr = "None"
    /\ rawValues = <<>>
    /\ time_layouts = <<>>
    /\ pvalues = <<>>

----------------------------------------------------------------------------
\* forecast.py: ForecastParser.parse, _daily, _hourly (the parameter lookups)

\* ForecastParser.codes, inverted: element code -> display name
code_map ==
    [maxt |-> "Daily Maximum Temperature",
     mint |-> "Daily Minimum Temperature",
     pop12 |-> "12 Hourly Probability of Precipitation",
     temp |-> "Temperature",
     td |-> "Dew Point",
     apt |-> "Apparent Temperature",
     sky |-> "Cloud Cover Amount",
     wdir |-> "Wind Direction",
     wspd |-> "Wind Speed",
     wgust |-> "Wind Speed Gust",
     wx |-> "Weather Type, Coverage, and Intensity",
     qpf |-> "Liquid Precipitation Amount",
     snow |-> "Snow Amount",
     rhm |-> "Relative Humidity",
     sym |-> "Conditions Icons"]

\* The recipes of _daily, in the order of the code: the field and the
\* elements it looks up
DailyRecipes ==
    << [field |-> "high", elements |-> <<"maxt">>],
       [field |-> "low", elements |-> <<"mint", "temp">>],
       [field |-> "precip_day", elements |-> <<"pop12">>],
       [field |-> "precip_night", elements |-> <<"pop12">>],
       [field |-> "rain_amount", elements |-> <<"qpf">>],
       [field |-> "snow_amount", elements |-> <<"snow">>],
       [field |-> "relative_humidity", elements |-> <<"rhm">>],
       [field |-> "wind_gust", elements |-> <<"wgust">>],
       [field |-> "wind_sustained", elements |-> <<"wspd">>],
       [field |-> "weather", elements |-> <<"wx">>],
       [field |-> "wsym", elements |-> <<"sym">>] >>

\* The recipes of _hourly
HourlyRecipes ==
    << [field |-> "temp", elements |-> <<"temp">>],
       [field |-> "precip", elements |-> <<"pop12">>],
       [field |-> "relative_humidity", elements |-> <<"rhm">>],
       [field |-> "rain_amount", elements |-> <<"qpf">>],
       [field |-> "snow_amount", elements |-> <<"snow">>],
       [field |-> "wind_sustained", elements |-> <<"wspd">>],
       [field |-> "wind_gust", elements |-> <<"wgust">>],
       [field |-> "sky", elements |-> <<"sky">>],
       [field |-> "weather", elements |-> <<"wx">>],
       [field |-> "wsym", elements |-> <<"sym">>] >>

\* DwmlDoc.parameter(name) finds a parameter: next() over the parameters
\* named name; with none, it raises StopIteration
HasParameter_default(d, name) == TRUE
HasParameter(d, name) == name \in d

\* Every lookup of a recipe succeeds
LookupsOk(d, recipe) ==
    \A k \in 1..Len(recipe.elements) :
        HasParameter(d, code_map[recipe.elements[k]])

NoForecast == [daily |-> {"None"}, hourly |-> {"None"}]

\* The display names a document may carry: those the recipes look up, and
\* one they do not
DocNames ==
    {code_map[c] : c \in {"maxt", "mint", "temp", "pop12", "qpf", "snow", "rhm",
                          "wgust", "wspd", "wx", "sym", "sky", "td"}}

AsmInit ==
    /\ aPc = "daily"
    /\ doc \in SUBSET DocNames
    /\ step = 1
    /\ daily = {}
    /\ hourly = {}
    /\ returned = NoForecast

\* One _combine_daily(...) statement of _daily
DailyStep ==
    /\ aPc = "daily"
    /\ IF LookupsOk(doc, DailyRecipes[step])
       THEN /\ daily' = daily \cup {DailyRecipes[step].field}
            /\ IF step = Len(DailyRecipes)
               THEN aPc' = "hourly" /\ step' = 1
               ELSE aPc' = aPc /\ step' = step + 1
       ELSE /\ aPc' = "error"
            /\ UNCHANGED <<daily, step>>
    /\ UNCHANGED <<doc, hourly, returned>>
    /\ UNCHANGED <<parseVars, aggVars, lowVars, clVars, fqVars, wxVars>>

\* One _combine_hourly(...) statement of _hourly
HourlyStep ==
    /\ aPc = "hourly"
    /\ IF LookupsOk(doc, HourlyRecipes[step])
       THEN /\ hourly' = hourly \cup {HourlyRecipes[step].field}
            /\ IF step = Len(HourlyRecipes)
               THEN aPc' = "cleanup" /\ step' = 1
               ELSE aPc' = aPc /\ step' = step + 1
       ELSE /\ aPc' = "error"
            /\ UNCHANGED <<hourly, step>>
    /\ UNCHANGED <<doc, daily, returned>>
    /\ UNCHANGED <<parseVars, aggVars, lowVars, clVars, fqVars, wxVars>>

\* return self._cleanup(forecast_data)
ReturnForecast ==
    /\ aPc = "cleanup"
    /\ returned' = [daily |-> daily, hourly |-> hourly]
    /\ aPc' = "done"
    /\ UNCHANGED <<doc, step, daily, hourly>>
    /\ UNCHANGED <<parseVars, aggVars, lowVars, clVars, fqVars, wxVars>>

AsmNext == DailyStep \/ HourlyStep \/ ReturnForecast

AsmIdle ==
    /\ aPc = "idle"
    /\ doc = {}
    /\ step = 0
    /\ daily = {}
    /\ hourly = {}
    /\ returned = NoForecast

----------------------------------------------------------------------------
\* forecast.py: the helpers of the aggregator

\* datetime.time values compare by (hour, minute, second)
TimeLess(a, b) ==
    \/ a[1] < b[1]
    \/ a[1] = b[1] /\ a[2] < b[2]
    \/ a[1] = b[1] /\ a[2] = b[2] /\ a[3] < b[3]

_is_night_inclusive(time) ==
    ~TimeLess(<<6, 0, 0>>, time) \/ ~TimeLess(time, <<18, 0, 0>>)
_is_night(time) ==
    LET sunrise == <<6, 0, 0>>
        sunset == <<18, 0, 0>>
    IN  TimeLess(time, sunrise) \/ TimeLess(sunset, time)

_skip_night(value) == _is_night(value.start.time)

\* link.split('/')[-1] if '/' in link else None
_symbol_from_link(link) ==
    IF ~Truthy(link) THEN NoneV
    ELSE IF link[1] = "link" /\ Len(link[2]) >= 2
         THEN LET piece == link[2][Len(link[2])]
              IN  IF piece = <<>> THEN EmptyStr ELSE <<"name", piece>>
         ELSE NoneV

_format_symbol(value) == _symbol_from_link(value)

_is_night_symbol(symbol) ==
    IF ~Truthy(symbol) THEN FALSE ELSE symbol[2][1] = "n"

_skip_night_symbol(parameter_value) ==
    LET link == parameter_value.value
    IN  IF ~Truthy(link) THEN FALSE
        ELSE LET symbol == _symbol_from_link(link)
             IN  IF ~Truthy(symbol) THEN FALSE ELSE _is_night_symbol(symbol)

\* int(float(knots) * 1.15077945) if knots else None.  The product is
\* knots + knots * 15077945 / 10^8, kept within TLC's integers.
_format_wind(knots) ==
    IF Truthy(knots)
    THEN IntV(knots[2] + (knots[2] * 15077945) \div 100000000)
    ELSE NoneV

\* The except clause of _format_weather: elements[1..3] or a part [1] is
\* missing (IndexError), or the value has no split (AttributeError on None)
WeatherRaises(weather_line) ==
    \/ weather_line[1] # "wx"
    \/ Len(weather_line[2]) < 4
    \/ \E k \in 2..4 : Len(weather_line[2][k]) < 2

\* The try body of _format_weather, on a value it does not raise on
WeatherPhrase(weather_line) ==
    LET elements == weather_line[2]
        coverage == elements[2][2]
        intensity == IF elements[3][2] = "none" THEN "" ELSE elements[3][2]
        weather == elements[4][2]
    IN  IF coverage = "likely"
        THEN <<"phrase", <<intensity, weather, coverage>>>>
        ELSE IF coverage = "chance" \/ coverage = "slight chance"
        THEN <<"phrase", <<coverage, "of", intensity, weather>>>>
        ELSE IF coverage = "definitely"
        THEN <<"phrase", <<intensity, weather>>>>
        ELSE <<"phrase", <<coverage, intensity, weather>>>>

\* except: return ''
_format_weather_indexerror(weather_line) ==
    IF weather_line[1] # "wx" THEN <<"raised", 0>>
    ELSE IF WeatherRaises(weather_line) THEN EmptyStr
    ELSE WeatherPhrase(weather_line)
_format_weather(weather_line) ==
    IF WeatherRaises(weather_line) THEN EmptyStr
    ELSE WeatherPhrase(weather_line)

\* for v in values: if len(str(v)) > 0: return v.  str(None) is 'None'.
RECURSIVE _first_nonempty(_)
_first_nonempty(values) ==
    IF values = <<>> THEN NoneV
    ELSE IF values[1] # EmptyStr THEN values[1]
    ELSE _first_nonempty(Tail(values))

\* The first loop of _most_frequent: the keys of counts in insertion order,
\* and each key's count
RECURSIVE FreqKeys(_)
FreqKeys(values) ==
    IF values = <<>> THEN <<>>
    ELSE LET ks == FreqKeys(SubSeq(values, 1, Len(values) - 1))
             val == values[Len(values)]
         IN  IF \E i \in 1..Len(ks) : ks[i] = val THEN ks ELSE Append(ks, val)

FreqCount(values, key) == Cardinality({i \in 1..Len(values) : values[i] = key})

\* The second loop of _most_frequent, from key i on; st = [val, maxCount]
RECURSIVE FreqScan_last(_, _, _, _)
FreqScan_last(values, ks, i, st) ==
    IF i > Len(ks) THEN st.val
    ELSE LET v == FreqCount(values, ks[i])
         IN  FreqScan_last(values, ks, i + 1,
                 IF v >= st.maxCount THEN [val |-> ks[i], maxCount |-> v] ELSE st)
RECURSIVE FreqScan(_, _, _, _)
FreqScan(values, ks, i, st) ==
    IF i > Len(ks) THEN st.val
    ELSE LET v == FreqCount(values, ks[i])
         IN  FreqScan(values, ks, i + 1,
                 IF v > st.maxCount THEN [val |-> ks[i], maxCount |-> v] ELSE st)

\* values is not empty (with no value, val is unbound and the return raises)
_most_frequent(values) ==
    FreqScan(values, FreqKeys(values), 1, [val |-> NoneV, maxCount |-> 0])

----------------------------------------------------------------------------
\* forecast.py: ForecastParser._aggregate

_skip_different_startend_date_same(value) == value.start.date = value.end.date
_skip_different_startend_date(value) == value.start.date # value.end.date
_skip_same_startend_date(value) == value.start.date = value.end.date
_skip_empty_value(value) == value.value = EmptyStr

\* skipper(v) of a recipe: "skip", "keep", or "raise" where the call raises
\* (the date of an end that is None, the len of a value that is None)
Skipper(skipper, v) ==
    CASE skipper = "_skip_different_startend_date" ->
            IF v.end = NoEnd THEN "raise"
            ELSE IF _skip_different_startend_date(v) THEN "skip" ELSE "keep"
      [] skipper = "_skip_same_startend_date" ->
            IF v.end = NoEnd THEN "raise"
            ELSE IF _skip_same_startend_date(v) THEN "skip" ELSE "keep"
      [] skipper = "_skip_empty_value" ->
            IF v.value = NoneV THEN "raise"
            ELSE IF _skip_empty_value(v) THEN "skip" ELSE "keep"
      [] skipper = "_skip_night" -> IF _skip_night(v) THEN "skip" ELSE "keep"
      [] skipper = "_skip_night_symbol" ->
            IF _skip_night_symbol(v) THEN "skip" ELSE "keep"
      [] OTHER -> "keep"

\* The first loop of _aggregate: indexed_values, the values by start date.
\* st = [failed, indexed].  A numeric value is kept as float(v.value).
RECURSIVE IndexValues_keepempty(_, _, _)
IndexValues_keepempty(values, cfg, st) ==
    IF values = <<>> \/ st.failed THEN st
    ELSE LET v == values[1]
             sk == Skipper(cfg.skipper, v)
             start_date == v.start.date
             value == IF cfg.is_numeric THEN v.value[2] ELSE v.value
             old == IF start_date \in DOMAIN st.indexed
                    THEN st.indexed[start_date] ELSE <<>>
         IN  IF sk = "raise" THEN [st EXCEPT !.failed = TRUE]
             ELSE IF sk = "skip" THEN IndexValues_keepempty(Tail(values), cfg, st)
             ELSE IndexValues_keepempty(Tail(values), cfg,
                    [st EXCEPT !.indexed =
                        [d \in DOMAIN st.indexed \cup {start_date} |->
                            IF d = start_date THEN Append(old, value)
                            ELSE st.indexed[d]]])
RECURSIVE IndexValues(_, _, _)
IndexValues(values, cfg, st) ==
    IF values = <<>> \/ st.failed THEN st
    ELSE LET v == values[1]
             sk == Skipper(cfg.skipper, v)
             start_date == v.start.date
             value == IF cfg.is_numeric THEN v.value[2] ELSE v.value
             old == IF start_date \in DOMAIN st.indexed
                    THEN st.indexed[start_date] ELSE <<>>
         IN  IF cfg.is_numeric /\ ~Truthy(v.value)
             THEN IndexValues(Tail(values), cfg, st)
             ELSE IF sk = "raise" THEN [st EXCEPT !.failed = TRUE]
             ELSE IF sk = "skip" THEN IndexValues(Tail(values), cfg, st)
             ELSE IndexValues(Tail(values), cfg,
                    [st EXCEPT !.indexed =
                        [d \in DOMAIN st.indexed \cup {start_date} |->
                            IF d = start_date THEN Append(old, value)
                            ELSE st.indexed[d]]])

\* round(num / den, decimal) in units of 10^-decimal, num >= 0: to the
\* nearest unit, a tie to the even one
RoundDiv(num, den) ==
    LET q == num \div den
        r == num % den
    IN  IF 2 * r < den THEN q
        ELSE IF 2 * r > den THEN q + 1
        ELSE IF q % 2 = 0 THEN q ELSE q + 1

\* The aggregate function, the rounding and the formatter on one date's
\* values.  A numeric text with decimal > 0 counts units of 10^-decimal.
AggregateValue(cfg, values) ==
    LET function == cfg.function
        num == CASE function \in {"average", "sum"} -> SumSeq(values)
                 [] function = "max" -> MaxSeq(values)
                 [] function = "min" -> MinSeq(values)
                 [] function = "frequent" -> _most_frequent(values)
                 [] OTHER -> values[1]
        den == IF function = "average" THEN Len(values) ELSE 1
        value == IF cfg.is_numeric
                 THEN IF cfg.decimal = 0 THEN IntV(TruncDiv(num, den))
                      ELSE FloatV(RoundDiv(num, den))
                 ELSE CASE function = "first-nonempty" -> _first_nonempty(values)
                        [] function = "frequent" -> _most_frequent(values)
                        [] OTHER -> values[1]
    IN  CASE cfg.formatter = "_format_wind" -> _format_wind(value)
          [] cfg.formatter = "_format_weather" -> _format_weather(value)
          [] cfg.formatter = "_format_symbol" -> _format_symbol(value)
          [] OTHER -> value

\* min_values = 0 stands for None: both are false in "if min_values and"
BelowMin(cfg, values) == cfg.min_values # 0 /\ Len(values) < cfg.min_values

\* _aggregate(values, function, is_numeric, decimal, skipper, formatter,
\* min_values), the arguments after values in cfg: [failed, data]
_aggregate(values, cfg) ==
    LET st == IndexValues(values, cfg, [failed |-> FALSE, indexed |-> <<>>])
        dates == {d \in DOMAIN st.indexed : ~BelowMin(cfg, st.indexed[d])}
    IN  IF st.failed THEN [failed |-> TRUE, data |-> <<>>]
        ELSE [failed |-> FALSE,
              data |-> [d \in dates |-> AggregateValue(cfg, st.indexed[d])]]

\* The calls of _aggregate in _daily
AggRecipe(fn, num, dec, sk, fmt, min) ==
    [function |-> fn, is_numeric |-> num, decimal |-> dec, skipper |-> sk,
     formatter |-> fmt, min_values |-> min]

DailyAggregates ==
    [high |-> AggRecipe("first", TRUE, 0, "None", "None", 0),
     precip_day |-> AggRecipe("first", TRUE, 0, "_skip_different_startend_date", "None", 0),
     precip_night |-> AggRecipe("first", TRUE, 0, "_skip_same_startend_date", "None", 0),
     rain_amount |-> AggRecipe("sum", TRUE, 2, "_skip_empty_value", "None", 3),
     snow_amount |-> AggRecipe("sum", TRUE, 1, "_skip_empty_value", "None", 3),
     relative_humidity |-> AggRecipe("average", TRUE, 0, "None", "None", 0),
     wind_gust |-> AggRecipe("max", TRUE, 0, "None", "_format_wind", 0),
     wind_sustained |-> AggRecipe("average", TRUE, 0, "None", "_format_wind", 0),
     weather |-> AggRecipe("first-nonempty", FALSE, 0, "_skip_night", "_format_weather", 0),
     wsym |-> AggRecipe("frequent", FALSE, 0, "_skip_night_symbol", "_format_symbol", 0)]

\* Sample texts of the feed
WxChanceRain ==
    <<"wx", << <<"">>, <<"coverage", "chance">>, <<"intensity", "light">>,
               <<"weather-type", "rain">>, <<"qualifier", "none">> >> >>
WxLikelySnow ==
    <<"wx", << <<"">>, <<"coverage", "likely">>, <<"intensity", "none">>,
               <<"weather-type", "snow">>, <<"qualifier", "none">> >> >>
LinkDay == <<"link", << <<"x", "">>, <<"r", "a80.jpg">> >> >>
LinkNight == <<"link", << <<"x", "">>, <<"n", "ra80.jpg">> >> >>

Noon == <<12, 0, 0>>
At(d, t) == [date |-> d, time |-> t]
PV(v, s, e) == [value |-> v, start |-> s, end |-> e]

\* The values a parameter of each recipe may carry
RecipeValues(field) ==
    CASE field \in {"precip_day", "precip_night"} ->
            {PV(v, At(d, <<6, 0, 0>>), At(d + n, <<18, 0, 0>>)) :
                v \in {EmptyStr, Str(0), Str(40)},
                d \in Dates, n \in {0, 1}}
      [] field \in {"rain_amount", "snow_amount"} ->
            {PV(v, At(d, Noon), NoEnd) :
                v \in {NoneV, EmptyStr, Str(0), Str(40)}, d \in Dates}
      [] field = "weather" ->
            {PV(v, At(1, t), NoEnd) :
                v \in {EmptyStr, WxChanceRain, WxLikelySnow},
                t \in {<<5, 30, 0>>, <<6, 0, 0>>, <<18, 0, 0>>, <<18, 0, 1>>}}
      [] field = "wsym" ->
            {PV(v, At(d, Noon), NoEnd) :
                v \in {NoneV, LinkDay, LinkNight}, d \in Dates}
      [] OTHER ->
            {PV(v, At(d, Noon), NoEnd) :
                v \in {NoneV, EmptyStr, Str(0), Str(7), Str(40)}, d \in Dates}

AggInit ==
    /\ aggPc = "call"
    /\ aggField \in DOMAIN DailyAggregates
    /\ aggValues \in SeqsUpTo(RecipeValues(aggField), MaxValues)
    /\ aggResult = [failed |-> FALSE, data |-> <<>>]

\* One call of _aggregate by _daily
Aggregate ==
    /\ aggPc = "call"
    /\ aggResult' = _aggregate(aggValues, DailyAggregates[aggField])
    /\ aggPc' = "done"
    /\ UNCHANGED <<aggField, aggValues>>
    /\ UNCHANGED <<parseVars, asmVars, lowVars, clVars, fqVars, wxVars>>

AggNext == Aggregate

AggIdle ==
    /\ aggPc = "idle"
    /\ aggField = "None"
    /\ aggValues = <<>>
    /\ aggResult = [failed |-> FALSE, data |-> <<>>]

----------------------------------------------------------------------------
\* forecast.py: ForecastParser._daily_low

\* int(x) raises on '' (ValueError) and on None (TypeError)
IntRaises(v) == v \in {NoneV, EmptyStr}

\* The first loop of _daily_low: data[end date] = day.value; st = [failed,
\* data].  The strftime of an end that is None raises.
RECURSIVE SeedLow(_, _)
SeedLow(days, st) ==
    IF days = <<>> \/ st.failed THEN st
    ELSE LET day == days[1]
             end_date == day.end.date
         IN  IF day.end = NoEnd THEN [st EXCEPT !.failed = TRUE]
             ELSE SeedLow(Tail(days),
                    [st EXCEPT !.data =
                        [d \in DOMAIN st.data \cup {end_date} |->
                            IF d = end_date THEN day.value ELSE st.data[d]]])

\* if date in data and int(hour.value) < int(data[date]):
\*     data[date] = hour.value
LowerAt_higher(st, date, hour) ==
    IF st.failed \/ date \notin DOMAIN st.data THEN st
    ELSE IF IntRaises(hour.value) \/ IntRaises(st.data[date])
         THEN [st EXCEPT !.failed = TRUE]
    ELSE IF hour.value[2] > st.data[date][2]
         THEN [st EXCEPT !.data[date] = hour.value]
    ELSE st
LowerAt(st, date, hour) ==
    IF st.failed \/ date \notin DOMAIN st.data THEN st
    ELSE IF IntRaises(hour.value) \/ IntRaises(st.data[date])
         THEN [st EXCEPT !.failed = TRUE]
    ELSE IF hour.value[2] < st.data[date][2]
         THEN [st EXCEPT !.data[date] = hour.value]
    ELSE st

\* The second loop of _daily_low: the start date, then the end date when
\* the hourly value has an end
RECURSIVE ScanHourlies(_, _)
ScanHourlies(hours, st) ==
    IF hours = <<>> \/ st.failed THEN st
    ELSE LET hour == hours[1]
             s1 == LowerAt(st, hour.start.date, hour)
             s2 == IF hour.end # NoEnd THEN LowerAt(s1, hour.end.date, hour)
                   ELSE s1
         IN  ScanHourlies(Tail(hours), s2)

_daily_low(days, hours) ==
    LET st == ScanHourlies(hours,
                  SeedLow(days, [failed |-> FALSE, data |-> <<>>]))
    IN  IF st.failed THEN [failed |-> TRUE, data |-> <<>>] ELSE st

\* Daily minimums run from the evening of one date to the morning of the
\* next; hourly temperatures are instants, or carry an end on the next date
LowDailies ==
    {PV(v, At(e - 1, <<19, 0, 0>>), At(e, <<7, 0, 0>>)) :
        v \in {EmptyStr, Str(30), Str(33)}, e \in {2, 3}}

LowHourlies ==
    {PV(v, At(d, <<5, 0, 0>>), NoEnd) :
        v \in {EmptyStr, Str(28), Str(35)}, d \in {2, 3}}
    \cup {PV(v, At(1, <<22, 0, 0>>), At(2, <<1, 0, 0>>)) :
        v \in {EmptyStr, Str(28), Str(35)}}

LowInit ==
    /\ lowPc = "call"
    /\ dailies \in SeqsUpTo(LowDailies, MaxDailies)
    /\ hourlies \in SeqsUpTo(LowHourlies, MaxHourlies)
    /\ lowResult = [failed |-> FALSE, data |-> <<>>]

\* The call of _daily_low by _daily
DailyLow ==
    /\ lowPc = "call"
    /\ lowResult' = _daily_low(dailies, hourlies)
    /\ lowPc' = "done"
    /\ UNCHANGED <<dailies, hourlies>>
    /\ UNCHANGED <<parseVars, asmVars, aggVars, clVars, fqVars, wxVars>>

LowNext == DailyLow

LowIdle ==
    /\ lowPc = "idle"
    /\ dailies = <<>>
    /\ hourlies = <<>>
    /\ lowResult = [failed |-> FALSE, data |-> <<>>]

----------------------------------------------------------------------------
\* forecast.py: ForecastParser._cleanup

\* list.sort() of the keys: dates, then the times of one date
RECURSIVE SortDates(_)
SortDates(S) ==
    IF S = {} THEN <<>>
    ELSE LET m == CHOOSE x \in S : \A y \in S : x <= y
         IN  <<m>> \o SortDates(S \ {m})

RECURSIVE SortTimes(_)
SortTimes(S) ==
    IF S = {} THEN <<>>
    ELSE LET m == CHOOSE x \in S : \A y \in S : x = y \/ TimeLess(x, y)
         IN  <<m>> \o SortTimes(S \ {m})

\* The slots in the order the two loops visit them: <<date, time>>
RECURSIVE SlotOrderFrom(_, _)
SlotOrderFrom(data, dates) ==
    IF dates = <<>> THEN <<>>
    ELSE LET date == dates[1]
             times == SortTimes(DOMAIN data[date])
         IN  [k \in 1..Len(times) |-> <<date, times[k]>>]
                \o SlotOrderFrom(data, Tail(dates))

SlotOrder(data) == SlotOrderFrom(data, SortDates(DOMAIN data))

\* round(float(amount) / 2, 2) of an amount of n hundredths below 0.60: the
\* odd n whose half the double arithmetic rounds up
HalfRoundsUp == {1, 5, 7, 11, 13, 17, 19, 23, 27, 33, 39, 45, 51, 53, 55}
HalfRound(n) ==
    IF n % 2 = 0 THEN n \div 2
    ELSE IF n \in HalfRoundsUp THEN (n + 1) \div 2 ELSE (n - 1) \div 2

\* d[key] = value on a dict
SetField(slot, key, value) ==
    [f \in DOMAIN slot \cup {key} |-> IF f = key THEN value ELSE slot[f]]

\* averageRain != 0: true of None
NotZero(v) == v = NoneV \/ v[2] # 0

\* The precip lines of the loop body: [slot, carry]
FillPrecip_reset(slot, tmp) ==
    LET currentPrecip == IF "precip" \in DOMAIN slot THEN slot["precip"] ELSE NoneV
    IN  [slot |-> IF Truthy(tmp) /\ ~Truthy(currentPrecip)
                  THEN SetField(slot, "precip", tmp) ELSE slot,
         carry |-> currentPrecip]
FillPrecip(slot, tmp) ==
    LET currentPrecip == IF "precip" \in DOMAIN slot THEN slot["precip"] ELSE NoneV
    IN  [slot |-> IF Truthy(tmp) /\ ~Truthy(currentPrecip)
                  THEN SetField(slot, "precip", tmp) ELSE slot,
         carry |-> IF Truthy(currentPrecip) THEN currentPrecip ELSE tmp]

\* The rain_amount (snow_amount) lines of the loop body: [slot, carry]
HalveAmount_nocarry(slot, key, average) ==
    IF key \in DOMAIN slot /\ Truthy(slot[key])
    THEN LET half == FloatV(HalfRound(slot[key][2]))
         IN  [slot |-> SetField(slot, key, half), carry |-> IntV(0)]
    ELSE [slot |-> IF NotZero(average) THEN SetField(slot, key, average) ELSE slot,
          carry |-> IntV(0)]
HalveAmount_sticky(slot, key, average) ==
    IF key \in DOMAIN slot /\ Truthy(slot[key])
    THEN LET half == FloatV(HalfRound(slot[key][2]))
         IN  [slot |-> SetField(slot, key, half), carry |-> half]
    ELSE [slot |-> IF NotZero(average) THEN SetField(slot, key, average) ELSE slot,
          carry |-> average]
HalveAmount(slot, key, average) ==
    IF key \in DOMAIN slot /\ Truthy(slot[key])
    THEN LET half == FloatV(HalfRound(slot[key][2]))
         IN  [slot |-> SetField(slot, key, half), carry |-> half]
    ELSE [slot |-> IF NotZero(average) THEN SetField(slot, key, average) ELSE slot,
          carry |-> IntV(0)]

\* if not 'temp' in slot: pop the slot
DropsSlot_never(slot) == FALSE
DropsSlot(slot) == "temp" \notin DOMAIN slot

\* The slots of the hourly forecast before _cleanup: slot k of n, two
\* slots a date from the evening of date 1 on
SlotAt(k) == <<1 + k \div 2, IF k % 2 = 1 THEN <<18, 0, 0>> ELSE <<6, 0, 0>>>>

\* The fields a slot may hold after _hourly: temp or not, the pop12 text
\* (of slot k: 10 k percent) or not, and the qpf and snow texts or not
SlotKinds ==
    [temp : BOOLEAN, precip : BOOLEAN,
     amounts : {<<>>, <<"rain_amount", Str(40)>>, <<"rain_amount", Str(0)>>,
                <<"snow_amount", Str(25)>>}]

SlotFields(k, kind) ==
    LET fs == (IF kind.temp THEN {"temp"} ELSE {})
                \cup (IF kind.precip THEN {"precip"} ELSE {})
                \cup (IF kind.amounts # <<>> THEN {kind.amounts[1]} ELSE {})
    IN  [f \in fs |-> CASE f = "temp" -> Str(50)
                        [] f = "precip" -> Str(10 * k)
                        [] OTHER -> kind.amounts[2]]

HourlyOf(kinds) ==
    LET n == Len(kinds)
        dates == {SlotAt(k)[1] : k \in 1..n}
    IN  [d \in dates |->
            [t \in {SlotAt(k)[2] : k \in {j \in 1..n : SlotAt(j)[1] = d}} |->
                LET k == CHOOSE k \in 1..n : SlotAt(k) = <<d, t>>
                IN  SlotFields(k, kinds[k])]]

CleanupInit ==
    /\ clPc = "loop"
    /\ \E n \in 1..MaxSlots : \E kinds \in [1..n -> SlotKinds] :
          /\ clInput = HourlyOf(kinds)
          /\ clOrder = SlotOrder(HourlyOf(kinds))
    /\ clData = clInput
    /\ clPos = 1
    /\ tmpPrecip = NoneV
    /\ averageRain = NoneV
    /\ averageSnow = NoneV

\* One pass of the inner loop of _cleanup, on the next slot in ascending
\* (date, time) order
CleanupSlot ==
    /\ clPc = "loop"
    /\ clPos <= Len(clOrder)
    /\ LET date == clOrder[clPos][1]
           time == clOrder[clPos][2]
           p == FillPrecip(clData[date][time], tmpPrecip)
           r == HalveAmount(p.slot, "rain_amount", averageRain)
           s == HalveAmount(r.slot, "snow_amount", averageSnow)
       IN  /\ tmpPrecip' = p.carry
           /\ averageRain' = r.carry
           /\ averageSnow' = s.carry
           /\ clData' =
                IF DropsSlot(s.slot)
                THEN [clData EXCEPT ![date] =
                        [t \in DOMAIN clData[date] \ {time} |-> clData[date][t]]]
                ELSE [clData EXCEPT ![date][time] = s.slot]
    /\ clPos' = clPos + 1
    /\ UNCHANGED <<clPc, clInput, clOrder>>
    /\ UNCHANGED <<parseVars, asmVars, aggVars, lowVars, fqVars, wxVars>>

\* return data
CleanupReturn ==
    /\ clPc = "loop"
    /\ clPos > Len(clOrder)
    /\ clPc' = "done"
    /\ UNCHANGED <<clInput, clOrder, clData, clPos, tmpPrecip, averageRain,
                   averageSnow>>
    /\ UNCHANGED <<parseVars, asmVars, aggVars, lowVars, fqVars, wxVars>>

CleanupNext == CleanupSlot \/ CleanupReturn

CleanupIdle ==
    /\ clPc = "idle"
    /\ clInput = <<>>
    /\ clOrder = <<>>
    /\ clData = <<>>
    /\ clPos = 0
    /\ tmpPrecip = NoneV
    /\ averageRain = NoneV
    /\ averageSnow = NoneV

----------------------------------------------------------------------------
\* forecast.py: the calls of _most_frequent and of _format_weather

FreqInit ==
    /\ fqPc = "call"
    /\ fqValues \in SeqsUpTo({LinkDay, LinkNight, NoneV}, MaxFreqLen) \ {<<>>}
    /\ fqResult = NoneV

\* value = self._most_frequent(values), on the values of one date
MostFrequent ==
    /\ fqPc = "call"
    /\ fqResult' = _most_frequent(fqValues)
    /\ fqPc' = "done"
    /\ UNCHANGED fqValues
    /\ UNCHANGED <<parseVars, asmVars, aggVars, lowVars, clVars, wxVars>>

FreqNext == MostFrequent

FreqIdle ==
    /\ fqPc = "idle"
    /\ fqValues = <<>>
    /\ fqResult = NoneV

\* The k-th '|'-separated field of a weather text: what format_weather of
\* dwml.py writes there, with a value for each branch of _format_weather,
\* a key that is not the expected one, and a field without ':'
WeatherField(k) ==
    CASE k = 1 -> {<<"">>}
      [] k % 4 = 2 ->
            {<<"coverage", c>> :
                c \in {"likely", "chance", "slight chance", "definitely",
                       "areas", "None"}}
            \cup {<<"cov", "likely">>, <<"coverage">>}
      [] k % 4 = 3 ->
            {<<"intensity", "none">>, <<"intensity", "light">>, <<"intensity">>}
      [] k % 4 = 0 ->
            {<<"weather-type", "rain">>, <<"weather-type", "snow">>,
             <<"weather-type">>}
      [] OTHER -> {<<"qualifier", "none">>}

RECURSIVE WeatherFields(_)
WeatherFields(n) ==
    IF n = 0 THEN {<<>>}
    ELSE {Append(els, f) : els \in WeatherFields(n - 1), f \in WeatherField(n)}

\* The values _format_weather is given: None, '', a text without '|', and
\* the texts of 2 to MaxFields fields
WeatherLines ==
    {NoneV, EmptyStr, Str(30)}
    \cup {<<"wx", els>> : els \in UNION {WeatherFields(n) : n \in 2..MaxFields}}

WxInit ==
    /\ wxPc = "call"
    /\ wxLine \in WeatherLines
    /\ wxResult = NoneV

\* value = formatter(value) with formatter = self._format_weather
FormatWeather ==
    /\ wxPc = "call"
    /\ wxResult' = _format_weather(wxLine)
    /\ wxPc' = "done"
    /\ UNCHANGED wxLine
    /\ UNCHANGED <<parseVars, asmVars, aggVars, lowVars, clVars, fqVars>>

WxNext == FormatWeather

WxIdle ==
    /\ wxPc = "idle"
    /\ wxLine = NoneV
    /\ wxResult = NoneV

----------------------------------------------------------------------------
\* Specifications

InitParse == ParseInit /\ AsmIdle /\ AggIdle /\ LowIdle /\ CleanupIdle
    /\ FreqIdle /\ WxIdle
SpecParse == InitParse /\ [][ParseNext]_vars

InitAssemble == AsmInit /\ ParseIdle /\ AggIdle /\ LowIdle /\ CleanupIdle
    /\ FreqIdle /\ WxIdle
SpecAssemble == InitAssemble /\ [][AsmNext]_vars

InitAggregate == AggInit /\ ParseIdle /\ AsmIdle /\ LowIdle /\ CleanupIdle
    /\ FreqIdle /\ WxIdle
SpecAggregate == InitAggregate /\ [][AggNext]_vars

InitLow == LowInit /\ ParseIdle /\ AsmIdle /\ AggIdle /\ CleanupIdle
    /\ FreqIdle /\ WxIdle
SpecLow == InitLow /\ [][LowNext]_vars

InitCleanup == CleanupInit /\ ParseIdle /\ AsmIdle /\ AggIdle /\ LowIdle
    /\ FreqIdle /\ WxIdle
SpecCleanup == InitCleanup /\ [][CleanupNext]_vars

InitFrequent ==
    FreqInit /\ ParseIdle /\ AsmIdle /\ AggIdle /\ LowIdle /\ CleanupIdle /\ WxIdle
SpecFrequent == InitFrequent /\ [][FreqNext]_vars

InitWeather ==
    WxInit /\ ParseIdle /\ AsmIdle /\ AggIdle /\ LowIdle /\ CleanupIdle /\ FreqIdle
SpecWeather == InitWeather /\ [][WxNext]_vars

----------------------------------------------------------------------------
\* C1: after DwmlParser.parse, a parameter has as many values as the time
\* layout it references has periods, whatever the two counts are.
C1_ValuesMatchPeriods ==
    pPc = "done" => Len(pvalues) = Len(time_layouts[layoutAttr])

\* C2: when an element a recipe requires has no parameter with its display
\* name, ForecastParser.parse returns no forecast: it never completes and
\* once it has stopped it has stopped in an error.
C2_Required ==
    {"maxt", "mint", "temp", "pop12", "qpf", "snow", "rhm", "wgust", "wspd",
     "wx", "sym", "sky"}

C2_Missing == {e \in C2_Required : code_map[e] \notin doc}

C2_AllOrNothing ==
    C2_Missing # {} =>
        /\ returned = NoForecast
        /\ aPc \in {"daily", "hourly", "error"}
        /\ (~ENABLED AsmNext => aPc = "error")

\* parse has built part of daily and then failed on a missing element
C2_Witness ==
    /\ aPc = "error"
    /\ C2_Missing = {"wgust"}
    /\ "high" \in daily
    /\ returned = NoForecast

\* C3: a date is a key of the result of _aggregate exactly when at least
\* one value starting on it survives the skip predicate (and, for a numeric
\* recipe, is not empty), and at least min_values of them when min_values
\* is given; numeric values that are all empty give no key.
C3_Surviving(d) ==
    LET cfg == DailyAggregates[aggField]
    IN  {i \in 1..Len(aggValues) :
            /\ aggValues[i].start.date = d
            /\ Skipper(cfg.skipper, aggValues[i]) = "keep"
            /\ (cfg.is_numeric => aggValues[i].value \notin {NoneV, EmptyStr})}

C3_KeysAreQualifyingDates ==
    (aggPc = "done" /\ ~aggResult.failed) =>
        \A d \in Dates \cup DOMAIN aggResult.data :
            d \in DOMAIN aggResult.data <=>
                /\ Cardinality(C3_Surviving(d)) >= 1
                /\ DailyAggregates[aggField].min_values # 0 =>
                     Cardinality(C3_Surviving(d))
                        >= DailyAggregates[aggField].min_values

\* a numeric recipe has run on values that are all empty on date 1 and
\* not on date 2: only date 2 is a key
C3_Witness ==
    /\ aggPc = "done"
    /\ aggField = "high"
    /\ Len(aggValues) = 3
    /\ \A i \in 1..2 : aggValues[i] = PV(EmptyStr, At(1, Noon), NoEnd)
    /\ aggValues[3] = PV(Str(7), At(2, Noon), NoEnd)
    /\ DOMAIN aggResult.data = {2}

\* C4: the keys of the result of _daily_low are the end dates of the
\* daily minimums, and the value of a date is the minimum of the daily
\* minimum ending on it (the last such in the series) and of the hourly
\* temperatures that start or end on it: a lower hourly value replaces the
\* daily one, a higher one does not.
C4_Touching(d) ==
    {i \in 1..Len(hourlies) :
        \/ hourlies[i].start.date = d
        \/ hourlies[i].end # NoEnd /\ hourlies[i].end.date = d}

C4_LastDaily(d) ==
    LET is == {i \in 1..Len(dailies) : dailies[i].end.date = d}
    IN  dailies[CHOOSE i \in is : \A j \in is : j <= i].value

C4_DailyLowIsMinimum ==
    (lowPc = "done" /\ ~lowResult.failed) =>
        /\ DOMAIN lowResult.data = {dailies[i].end.date : i \in 1..Len(dailies)}
        /\ \A d \in DOMAIN lowResult.data :
             LET cands == {C4_LastDaily(d)}
                            \cup {hourlies[i].value : i \in C4_Touching(d)}
             IN  /\ lowResult.data[d] \in cands
                 /\ C4_Touching(d) # {} =>
                      \A c \in cands : lowResult.data[d][2] <= c[2]

\* 30 ending on date 2 with an hourly 28 on date 2 gives 28; 30 ending on
\* date 3 with an hourly 35 on date 3 stays 30
C4_Witness ==
    /\ lowPc = "done"
    /\ ~lowResult.failed
    /\ dailies = << PV(Str(30), At(1, <<19, 0, 0>>), At(2, <<7, 0, 0>>)),
                    PV(Str(30), At(2, <<19, 0, 0>>), At(3, <<7, 0, 0>>)) >>
    /\ hourlies = << PV(Str(28), At(2, <<5, 0, 0>>), NoEnd),
                     PV(Str(35), At(3, <<5, 0, 0>>), NoEnd) >>
    /\ lowResult.data[2] = Str(28)
    /\ lowResult.data[3] = Str(30)

\* The k-th slot of the pass: its fields before _cleanup, whether it is
\* still in hourly, and its fields in hourly
InSlot(k) == clInput[clOrder[k][1]][clOrder[k][2]]
Retained(k) == clOrder[k][2] \in DOMAIN clData[clOrder[k][1]]
OutSlot(k) == clData[clOrder[k][1]][clOrder[k][2]]
HasValue(slot, key) == key \in DOMAIN slot /\ slot[key] \notin {NoneV, EmptyStr}

\* C5: after _cleanup a retained slot without a precip value of its own
\* holds the precip value of the nearest earlier slot of the pass that had
\* one, across date boundaries, and a slot with a precip value keeps it.
C5_PrecipCarriedForward ==
    clPc = "done" =>
        \A k \in 1..Len(clOrder) : Retained(k) =>
            LET before == {j \in 1..(k - 1) : HasValue(InSlot(j), "precip")}
            IN  IF HasValue(InSlot(k), "precip")
                THEN OutSlot(k)["precip"] = InSlot(k)["precip"]
                ELSE before # {} =>
                        /\ "precip" \in DOMAIN OutSlot(k)
                        /\ OutSlot(k)["precip"] =
                             InSlot(CHOOSE j \in before :
                                        \A i \in before : i <= j)["precip"]

\* three retained slots, the first alone with a precip value, on two
\* dates: all three end with it
C5_Witness ==
    /\ clPc = "done"
    /\ Len(clOrder) = 3
    /\ \A k \in 1..3 : Retained(k)
    /\ HasValue(InSlot(1), "precip")
    /\ \A k \in 2..3 : "precip" \notin DOMAIN InSlot(k)
    /\ clOrder[1][1] # clOrder[2][1]
    /\ \A k \in 1..3 : OutSlot(k)["precip"] = Str(10)

\* C6: a slot reporting a nonzero rain_amount r ends with r / 2 rounded to
\* hundredths, and the next slot of the pass, when it has no rain_amount
\* field, ends with the same halved value, also on the next date; the same
\* for snow_amount, with a carry-over of its own.
C6_HalvedAt(k, key) ==
    LET r == InSlot(k)[key][2]
    IN  /\ Retained(k) =>
              /\ OutSlot(k)[key][1] = "float"
              /\ 2 * OutSlot(k)[key][2] \in {r - 1, r, r + 1}
        /\ (k < Len(clOrder) /\ key \notin DOMAIN InSlot(k + 1) /\ Retained(k + 1)) =>
              /\ key \in DOMAIN OutSlot(k + 1)
              /\ OutSlot(k + 1)[key][1] = "float"
              /\ 2 * OutSlot(k + 1)[key][2] \in {r - 1, r, r + 1}
              /\ Retained(k) => OutSlot(k + 1)[key] = OutSlot(k)[key]

C6_AmountHalvedAndCarried ==
    clPc = "done" =>
        \A k \in 1..Len(clOrder) : \A key \in {"rain_amount", "snow_amount"} :
            (HasValue(InSlot(k), key) /\ InSlot(k)[key][2] # 0) =>
                C6_HalvedAt(k, key)

\* 0.40 of rain on the last slot of date 1 gives 0.20 there and 0.20 on the
\* first slot of date 2, which reports snow and no rain
C6_Witness ==
    /\ clPc = "done"
    /\ Len(clOrder) >= 2
    /\ Retained(1) /\ Retained(2)
    /\ clOrder[1][1] # clOrder[2][1]
    /\ HasValue(InSlot(1), "rain_amount")
    /\ InSlot(1)["rain_amount"] = Str(40)
    /\ "rain_amount" \notin DOMAIN InSlot(2)
    /\ HasValue(InSlot(2), "snow_amount")
    /\ OutSlot(1)["rain_amount"] = FloatV(20)
    /\ OutSlot(2)["rain_amount"] = FloatV(20)

\* C7: after _cleanup the slots of hourly are exactly the slots that had a
\* temp field before it, and each of them still has it.
C7_ExactlySlotsWithTemp ==
    clPc = "done" =>
        /\ \A k \in 1..Len(clOrder) : Retained(k) <=> "temp" \in DOMAIN InSlot(k)
        /\ \A d \in DOMAIN clData : \A t \in DOMAIN clData[d] :
              /\ "temp" \in DOMAIN clData[d][t]
              /\ \E k \in 1..Len(clOrder) : clOrder[k] = <<d, t>>

\* a slot without temp has been removed and one with temp is kept
C7_Witness ==
    /\ clPc = "done"
    /\ \E k \in 1..Len(clOrder) : ~Retained(k) /\ "temp" \notin DOMAIN InSlot(k)
    /\ \E k \in 1..Len(clOrder) : Retained(k) /\ "temp" \in DOMAIN OutSlot(k)

\* C8: _most_frequent of a non-empty list returns a value of the list with
\* the greatest number of occurrences and, among those, the one that occurs
\* first in the list.
C8_Count(x) == Cardinality({i \in 1..Len(fqValues) : fqValues[i] = x})
C8_First(x) == CHOOSE i \in 1..Len(fqValues) :
                  fqValues[i] = x /\ \A j \in 1..(i - 1) : fqValues[j] # x

C8_MostFrequentFirstSeen ==
    fqPc = "done" =>
        /\ \E i \in 1..Len(fqValues) : fqValues[i] = fqResult
        /\ \A i \in 1..Len(fqValues) :
              /\ C8_Count(fqValues[i]) <= C8_Count(fqResult)
              /\ C8_Count(fqValues[i]) = C8_Count(fqResult) =>
                    C8_First(fqResult) <= C8_First(fqValues[i])

\* [A, B, A, B] gives A
C8_Witness ==
    /\ fqPc = "done"
    /\ fqValues = <<LinkDay, LinkNight, LinkDay, LinkNight>>
    /\ fqResult = LinkDay

\* C9: _format_weather composes the phrase by the coverage, with the
\* intensity 'none' written as '', and gives '' for a value it cannot take
\* the three fields from (None, '', fewer than four '|' fields, a field
\* without ':'); it never raises.
C9_Parsable ==
    /\ wxLine[1] = "wx"
    /\ Len(wxLine[2]) >= 4
    /\ \A k \in {2, 3, 4} : Len(wxLine[2][k]) >= 2

C9_Expected ==
    LET c == wxLine[2][2][2]
        i == IF wxLine[2][3][2] = "none" THEN "" ELSE wxLine[2][3][2]
        w == wxLine[2][4][2]
    IN  CASE c = "likely" -> <<i, w, "likely">>
          [] c \in {"chance", "slight chance"} -> <<c, "of", i, w>>
          [] c = "definitely" -> <<i, w>>
          [] OTHER -> <<c, i, w>>

C9_WeatherPhraseByCoverage ==
    wxPc = "done" =>
        IF C9_Parsable THEN wxResult = <<"phrase", C9_Expected>>
        ELSE wxResult = EmptyStr

\* likely / none / snow gives ' snow likely'
C9_Witness ==
    /\ wxPc = "done"
    /\ wxLine = WxLikelySnow
    /\ wxResult = <<"phrase", <<"", "snow", "likely">>>>

\* C10: _is_night(t) is true exactly of the times before 06:00:00 and
\* after 18:00:00, and the daily weather recipe gives what it gives on the
\* values that do not start at night.
C10_Seconds(t) == 3600 * t[1] + 60 * t[2] + t[3]
C10_Night(t) == C10_Seconds(t) < 21600 \/ C10_Seconds(t) > 64800
C10_DayValues == SelectSeq(aggValues, LAMBDA v : ~C10_Night(v.start.time))

C10_NightIsFixedClock ==
    /\ \A i \in 1..Len(aggValues) :
          _is_night(aggValues[i].start.time) <=> C10_Night(aggValues[i].start.time)
    /\ (aggPc = "done" /\ aggField = "weather") =>
          aggResult = _aggregate(C10_DayValues,
                          [DailyAggregates["weather"] EXCEPT !.skipper = "None"])

\* the weather of a date whose first value starts at 05:30 and whose second
\* starts at 18:00:00 is the second's
C10_Witness ==
    /\ aggPc = "done"
    /\ aggField = "weather"
    /\ aggValues = << PV(WxChanceRain, At(1, <<5, 30, 0>>), NoEnd),
                      PV(WxLikelySnow, At(1, <<18, 0, 0>>), NoEnd) >>
    /\ aggResult.data[1] = <<"phrase", <<"", "snow", "likely">>>>

\* C11: given a feed whose only parameters are maxt and mint (one layout of
\* three daily periods), ForecastParser.parse runs to its return and the
\* daily forecast it returns has the fields high and low.
C11_MinimalDoc == {code_map["maxt"], code_map["mint"]}

C11_MinimalFeedGivesHighLow ==
    (doc = C11_MinimalDoc /\ ~ENABLED AsmNext) =>
        /\ aPc = "done"
        /\ {"high", "low"} \subseteq returned.daily

\* C12: _daily_low completes on every series of daily minimums and hourly
\* temperatures, whichever of their raw values are empty.
C12_EmptyValuesNeverFail ==
    lowPc = "done" => ~lowResult.failed

\* C13: parse_time_layouts never fails, and the periods it builds are one
\* per start-valid-time in document order, each with the end of the last
\* end-valid-time between its start and the next start (none: no end).
C13_Starts == {i \in 1..Len(children) : children[i] = "start-valid-time"}

C13_Nth(k) ==
    CHOOSE s \in C13_Starts : Cardinality({t \in C13_Starts : t < s}) = k - 1

C13_EndOf(s) ==
    LET later == {t \in C13_Starts : t > s}
        lim == IF later = {} THEN Len(children) + 1
               ELSE CHOOSE t \in later : \A u \in later : t <= u
        ends == {j \in (s + 1)..(lim - 1) : children[j] = "end-valid-time"}
    IN  IF ends = {} THEN 0 ELSE CHOOSE j \in ends : \A u \in ends : u <= j

C13_Periods ==
    [k \in 1..Cardinality(C13_Starts) |-> <<C13_Nth(k), C13_EndOf(C13_Nth(k))>>]

C13_LayoutsNeverFail ==
    pPc \in {"layouts", "done", "error"} =>
        /\ DOMAIN time_layouts # {}
        /\ \A key \in DOMAIN time_layouts : time_layouts[key] = C13_Periods

\* C14: after _cleanup a retained slot that had no rain_amount (snow_amount)
\* field, and whose predecessor in the pass did not report a nonzero amount,
\* has no rain_amount (snow_amount) field; so has every such slot before
\* the first reporting slot.
C14_NonzeroCarry(k, key) ==
    /\ k > 1
    /\ HasValue(InSlot(k - 1), key)
    /\ InSlot(k - 1)[key][2] # 0

C14_CarryOnlyWhenNonzero ==
    clPc = "done" =>
        \A k \in 1..Len(clOrder) : \A key \in {"rain_amount", "snow_amount"} :
            (Retained(k) /\ key \notin DOMAIN InSlot(k) /\ ~C14_NonzeroCarry(k, key))
                => key \notin DOMAIN OutSlot(k)

\* C15: on a pop12 series the precip_day recipe keeps a non-empty value
\* exactly when its start and end are on one date and the precip_night
\* recipe exactly when they are on two; the field of date d is the integer
\* of the first value kept that starts on d, and d is no key without one.
C15_SameDate(v) == v.start.date = v.end.date

C15_Used(field, d) ==
    {i \in 1..Len(aggValues) :
        /\ aggValues[i].value \notin {NoneV, EmptyStr}
        /\ aggValues[i].start.date = d
        /\ IF field = "precip_day" THEN C15_SameDate(aggValues[i])
           ELSE ~C15_SameDate(aggValues[i])}

C15_PrecipPartition ==
    (aggPc = "done" /\ aggField \in {"precip_day", "precip_night"}) =>
        /\ ~aggResult.failed
        /\ \A i \in 1..Len(aggValues) :
              aggValues[i].value \notin {NoneV, EmptyStr} =>
                /\ Skipper(DailyAggregates["precip_day"].skipper, aggValues[i]) = "keep"
                      <=> C15_SameDate(aggValues[i])
                /\ Skipper(DailyAggregates["precip_night"].skipper, aggValues[i]) = "keep"
                      <=> ~C15_SameDate(aggValues[i])
        /\ \A d \in Dates \cup DOMAIN aggResult.data :
              LET used == C15_Used(aggField, d)
              IN  IF used = {} THEN d \notin DOMAIN aggResult.data
                  ELSE /\ d \in DOMAIN aggResult.data
                       /\ aggResult.data[d] =
                            IntV(aggValues[CHOOSE i \in used :
                                              \A j \in used : i <= j].value[2])

\* precip_day of a date whose values are 40 over two dates, '' and 0 within
\* the date: the 0
C15_Witness ==
    /\ aggPc = "done"
    /\ aggField = "precip_day"
    /\ aggValues = << PV(Str(40), At(1, <<6, 0, 0>>), At(2, <<18, 0, 0>>)),
                      PV(EmptyStr, At(1, <<6, 0, 0>>), At(1, <<18, 0, 0>>)),
                      PV(Str(0), At(1, <<6, 0, 0>>), At(1, <<18, 0, 0>>)) >>
    /\ DOMAIN aggResult.data = {1}
    /\ aggResult.data[1] = IntV(0)

\* C16: the wind_gust of every date with a non-empty wgust value is the
\* integer int(m * 1.15077945) of the greatest value m of the date, also
\* for m = 0.
C16_Mph(m) == m + (m * 15077945) \div 100000000

C16_Knots(d) ==
    {aggValues[i].value[2] : i \in {j \in 1..Len(aggValues) :
        /\ aggValues[j].start.date = d
        /\ aggValues[j].value \notin {NoneV, EmptyStr}}}

C16_GustIsInteger ==
    (aggPc = "done" /\ aggField = "wind_gust") =>
        \A d \in Dates : C16_Knots(d) # {} =>
            /\ d \in DOMAIN aggResult.data
            /\ aggResult.data[d] =
                 IntV(C16_Mph(CHOOSE m \in C16_Knots(d) :
                                 \A n \in C16_Knots(d) : n <= m))

\* C17: a halved amount reaches at most the slot after the one that
\* reported it: a retained slot that had no rain_amount (snow_amount) field
\* and ends with an amount holds the half of what its predecessor in the
\* pass reported, so the second of two slots without the field gets none,
\* also when the first was dropped; and a dropped slot's precip value is
\* carried to the next slot.
C17_AtMostNextSlot ==
    clPc = "done" =>
        /\ \A j \in 1..Len(clOrder) : \A key \in {"rain_amount", "snow_amount"} :
              (/\ Retained(j)
               /\ key \notin DOMAIN InSlot(j)
               /\ key \in DOMAIN OutSlot(j)
               /\ OutSlot(j)[key] # NoneV) =>
                    /\ j > 1
                    /\ HasValue(InSlot(j - 1), key)
                    /\ OutSlot(j)[key] = FloatV(HalfRound(InSlot(j - 1)[key][2]))
        /\ \A j \in 2..Len(clOrder) : \A key \in {"rain_amount", "snow_amount"} :
              (/\ Retained(j)
               /\ key \notin DOMAIN InSlot(j)
               /\ key \notin DOMAIN InSlot(j - 1)) => key \notin DOMAIN OutSlot(j)
        /\ \A j \in 1..(Len(clOrder) - 1) :
              (/\ ~Retained(j)
               /\ HasValue(InSlot(j), "precip")
               /\ Retained(j + 1)
               /\ "precip" \notin DOMAIN InSlot(j + 1)) =>
                    OutSlot(j + 1)["precip"] = InSlot(j)["precip"]

\* 0.40 of rain, then a slot without temp that has a precip value, then a
\* slot with temp only: the third has the second's precip and no rain
C17_Witness ==
    /\ clPc = "done"
    /\ Len(clOrder) = 3
    /\ HasValue(InSlot(1), "rain_amount")
    /\ InSlot(1)["rain_amount"] = Str(40)
    /\ DOMAIN InSlot(2) = {"precip"}
    /\ DOMAIN InSlot(3) = {"temp"}
    /\ ~Retained(2)
    /\ Retained(3)
    /\ "rain_amount" \notin DOMAIN OutSlot(3)
    /\ OutSlot(3)["precip"] = InSlot(2)["precip"]

\* C18: after _cleanup every date of hourly has at least one slot.
C18_NoEmptyDate ==
    clPc = "done" => \A d \in DOMAIN clData : DOMAIN clData[d] # {}

====
